---- MODULE Spec2Model ----
(***************************************************************************)
(* Model of the Lox scanner of src/main.rs: the Token enum and its         *)
(* printing methods, the Lexer cursor with its sub-scanners, the Iterator  *)
(* implementation and the command dispatch of main.                        *)
(*                                                                         *)
(* A character is a one-character string, a Rust String or Vec<char> is a  *)
(* sequence of characters.  Rust indices are 0-based: string[i] in the     *)
(* source is s[i + 1] here.                                                *)
(***************************************************************************)
EXTENDS Integers, Sequences, FiniteSets, TLC

\* ------------------------------------------------------------------ bounds
\* longest source text that is scanned
MaxLen == 4
\* calls of next() a direct caller of the iterator makes after exhaustion
MaxExtraCalls == 2

\* -------------------------------------------------------------- characters
NL == "\n"
QUOTE == "\""
DOT == "."
None == "<none>"

Digits == {"0", "1", "2", "3", "4", "5", "6", "7", "8", "9"}

LowerLetters ==
  {"a", "b", "c", "d", "e", "f", "g", "h", "i", "j", "k", "l", "m",
   "n", "o", "p", "q", "r", "s", "t", "u", "v", "w", "x", "y", "z"}

UpperLetters ==
  {"A", "B", "C", "D", "E", "F", "G", "H", "I", "J", "K", "L", "M",
   "N", "O", "P", "Q", "R", "S", "T", "U", "V", "W", "X", "Y", "Z"}

\* 'a'..='z' | 'A'..='Z' | '_'
IdentStart == LowerLetters \cup UpperLetters \cup {"_"}

\* 'a'..='z' | 'A'..='Z' | '0'..='9' | '_'
IdentChars == IdentStart \cup Digits

\* char::is_whitespace for the characters of the model ('\n' has its own arm)
Whitespace == {" ", "\t", "\r", NL}

\* ------------------------------------------------------------------ tokens
\* A Token value: the variant, the String payload of Ident/String/Number
\* and the f64 payload of Number.
\* ok is FALSE for the Err of a parse and where a token holds no f64
NoNum == [ok |-> FALSE, int |-> 0, frac |-> <<>>]

Tok(variant) == [type |-> variant, s |-> <<>>, n |-> NoNum]
TokS(variant, str) == [type |-> variant, s |-> str, n |-> NoNum]
TokNumber(val, str) == [type |-> "Number", s |-> str, n |-> val]

\* the phf_map KEYWORDS: spelling -> variant
KEYWORDS ==
  {<<<<"a", "n", "d">>, "And">>,
   <<<<"c", "l", "a", "s", "s">>, "Class">>,
   <<<<"e", "l", "s", "e">>, "Else">>,
   <<<<"f", "a", "l", "s", "e">>, "False">>,
   <<<<"f", "o", "r">>, "For">>,
   <<<<"f", "u", "n">>, "Fun">>,
   <<<<"i", "f">>, "If">>,
   <<<<"n", "i", "l">>, "Nil">>,
   <<<<"o", "r">>, "Or">>,
   <<<<"p", "r", "i", "n", "t">>, "Print">>,
   <<<<"r", "e", "t", "u", "r", "n">>, "Return">>,
   <<<<"s", "u", "p", "e", "r">>, "Super">>,
   <<<<"t", "h", "i", "s">>, "This">>,
   <<<<"t", "r", "u", "e">>, "True">>,
   <<<<"v", "a", "r">>, "Var">>,
   <<<<"w", "h", "i", "l", "e">>, "While">>}

\* a faulty lookup: a keyword that str starts with is enough
KeywordsGet_prefix(str) ==
  LET hits == {kw \in KEYWORDS :
                 /\ Len(kw[1]) <= Len(str)
                 /\ SubSeq(str, 1, Len(kw[1])) = kw[1]}
  IN IF hits # {} THEN (CHOOSE kw \in hits : TRUE)[2] ELSE None

\* KEYWORDS.get(&s): the variant, or None
KeywordsGet(str) ==
  IF \E kw \in KEYWORDS : kw[1] = str
    THEN (CHOOSE kw \in KEYWORDS : kw[1] = str)[2]
    ELSE None

KeywordVariants == {kw[2] : kw \in KEYWORDS}

\* the tokens whose lexeme is a fixed text: variant -> text
Punctuation ==
  {<<"LParen", <<"(">> >>, <<"RParen", <<")">> >>,
   <<"LBrace", <<"{">> >>, <<"RBrace", <<"}">> >>,
   <<"Semicolon", <<";">> >>, <<"Star", <<"*">> >>,
   <<"Dot", <<".">> >>, <<"Comma", <<",">> >>,
   <<"Plus", <<"+">> >>, <<"Minus", <<"-">> >>,
   <<"Equal", <<"=">> >>, <<"EqualEqual", <<"=", "=">> >>,
   <<"Bang", <<"!">> >>, <<"BangEqual", <<"!", "=">> >>,
   <<"Less", <<"<">> >>, <<"LessEqual", <<"<", "=">> >>,
   <<"Greater", <<">">> >>, <<"GreaterEqual", <<">", "=">> >>,
   <<"Slash", <<"/">> >>}

\* Token::token_type
token_type(tok) ==
  CASE tok.type = "EOF" -> "EOF"
    [] tok.type = "LParen" -> "LEFT_PAREN"
    [] tok.type = "RParen" -> "RIGHT_PAREN"
    [] tok.type = "LBrace" -> "LEFT_BRACE"
    [] tok.type = "RBrace" -> "RIGHT_BRACE"
    [] tok.type = "Ident" -> "IDENTIFIER"
    [] tok.type = "String" -> "STRING"
    [] tok.type = "Semicolon" -> "SEMICOLON"
    [] tok.type = "Star" -> "STAR"
    [] tok.type = "Dot" -> "DOT"
    [] tok.type = "Comma" -> "COMMA"
    [] tok.type = "Plus" -> "PLUS"
    [] tok.type = "Minus" -> "MINUS"
    [] tok.type = "Equal" -> "EQUAL"
    [] tok.type = "EqualEqual" -> "EQUAL_EQUAL"
    [] tok.type = "Bang" -> "BANG"
    [] tok.type = "BangEqual" -> "BANG_EQUAL"
    [] tok.type = "Less" -> "LESS"
    [] tok.type = "LessEqual" -> "LESS_EQUAL"
    [] tok.type = "Greater" -> "GREATER"
    [] tok.type = "GreaterEqual" -> "GREATER_EQUAL"
    [] tok.type = "Slash" -> "SLASH"
    [] tok.type = "Number" -> "NUMBER"
    [] tok.type = "And" -> "AND"
    [] tok.type = "Class" -> "CLASS"
    [] tok.type = "Else" -> "ELSE"
    [] tok.type = "False" -> "FALSE"
    [] tok.type = "For" -> "FOR"
    [] tok.type = "Fun" -> "FUN"
    [] tok.type = "If" -> "IF"
    [] tok.type = "Nil" -> "NIL"
    [] tok.type = "Or" -> "OR"
    [] tok.type = "Print" -> "PRINT"
    [] tok.type = "Return" -> "RETURN"
    [] tok.type = "Super" -> "SUPER"
    [] tok.type = "This" -> "THIS"
    [] tok.type = "True" -> "TRUE"
    [] tok.type = "Var" -> "VAR"
    [] tok.type = "While" -> "WHILE"

\* the fixed text the match arms of lexeme and tok_print give a variant
FixedText(variant) ==
  IF variant = "EOF" THEN <<>>
  ELSE IF variant \in KeywordVariants
    THEN (CHOOSE kw \in KEYWORDS : kw[2] = variant)[1]
  ELSE (CHOOSE p \in Punctuation : p[1] = variant)[2]

\* ------------------------------------------------------------- f64 values
DigitValue(c) ==
  CASE c = "0" -> 0 [] c = "1" -> 1 [] c = "2" -> 2 [] c = "3" -> 3
    [] c = "4" -> 4 [] c = "5" -> 5 [] c = "6" -> 6 [] c = "7" -> 7
    [] c = "8" -> 8 [] c = "9" -> 9

DigitChar(d) ==
  CASE d = 0 -> "0" [] d = 1 -> "1" [] d = 2 -> "2" [] d = 3 -> "3"
    [] d = 4 -> "4" [] d = 5 -> "5" [] d = 6 -> "6" [] d = 7 -> "7"
    [] d = 8 -> "8" [] d = 9 -> "9"

RECURSIVE DecimalValue(_)
DecimalValue(ds) ==
  IF ds = <<>> THEN 0
  ELSE 10 * DecimalValue(SubSeq(ds, 1, Len(ds) - 1)) + DigitValue(ds[Len(ds)])

RECURSIVE DecimalDigits(_)
DecimalDigits(k) ==
  IF k < 10 THEN <<DigitChar(k)>>
  ELSE Append(DecimalDigits(k \div 10), DigitChar(k % 10))

RECURSIVE TrimZeros(_)
TrimZeros(ds) ==
  IF ds # <<>> /\ ds[Len(ds)] = "0" THEN TrimZeros(SubSeq(ds, 1, Len(ds) - 1))
  ELSE ds

DotsOf(str) == {i \in 1..Len(str) : str[i] = DOT}

\* str::parse::<f64> on the decimal texts the scanner can hand over: Err
\* unless the text is digits with at most one '.' and at least one digit.
\* The value is held as its integer part and its significant fraction
\* digits (exact for the short texts of the model).
ParseF64(str) ==
  IF \/ \E i \in 1..Len(str) : str[i] \notin Digits \cup {DOT}
     \/ Cardinality(DotsOf(str)) > 1
     \/ \A i \in 1..Len(str) : str[i] = DOT
    THEN NoNum
    ELSE LET d == IF DotsOf(str) = {} THEN Len(str) + 1
                  ELSE CHOOSE i \in DotsOf(str) : TRUE
         IN [ok |-> TRUE,
             int |-> DecimalValue(SubSeq(str, 1, d - 1)),
             frac |-> TrimZeros(SubSeq(str, d + 1, Len(str)))]

\* format!("{:?}", n) of an f64 below 1e16
FormatF64(val) ==
  DecimalDigits(val.int) \o <<DOT>> \o
    (IF val.frac = <<>> THEN <<"0">> ELSE val.frac)

\* a faulty lexeme: the body of a String without its quotes
lexeme_unquoted(tok) ==
  CASE tok.type = "Ident" -> tok.s
    [] tok.type = "String" -> tok.s
    [] tok.type = "Number" -> tok.s
    [] OTHER -> FixedText(tok.type)

\* Token::lexeme
lexeme(tok) ==
  CASE tok.type = "Ident" -> tok.s
    [] tok.type = "String" -> <<QUOTE>> \o tok.s \o <<QUOTE>>
    [] tok.type = "Number" -> tok.s
    [] OTHER -> FixedText(tok.type)

\* Token::tok_print
tok_print(tok) ==
  CASE tok.type = "Ident" -> tok.s
    [] tok.type = "String" -> tok.s
    [] tok.type = "Number" -> FormatF64(tok.n)
    [] OTHER -> FixedText(tok.type)

\* Token::literal
literal(tok) ==
  CASE tok.type = "String" -> tok.s
    [] tok.type = "Number" -> FormatF64(tok.n)
    [] OTHER -> <<"n", "u", "l", "l">>

\* Display for Token: "{} {} {}"
Display(tok) == <<token_type(tok), lexeme(tok), literal(tok)>>

\* ------------------------------------------------------------------- Lexer
\* The Lexer value is a record lx of its fields index, line, column, error
\* and done, together with what its calls have written to the error stream
\* (stderr) and the history of the iterations of the 'main_lex loop (trace).
\* The field string never changes and is passed as s.

\* What a call hands back is a token record; the variants None, Err and
\* Panic stand for Option::None, for the Err of num.parse()? and for a
\* panic of the running thread (index out of range).
Err == "<err>"
Panic == "<panic>"
NoToken == Tok(None)
ErrToken == Tok(Err)
PanicToken == Tok(Panic)

\* Lexer::new
LexerNew ==
  [index |-> 0, line |-> 1, column |-> 0, error |-> FALSE, done |-> FALSE,
   stderr |-> <<>>, trace |-> <<>>]

\* Lexer::peek_char
peek_char(s, index) ==
  IF index >= Len(s) THEN None ELSE s[index + 1]

\* a faulty read_char: the index stays where it is at the end of the input
read_char_stuck(s, index) ==
  [c |-> peek_char(s, index),
   index |-> IF index >= Len(s) THEN index ELSE index + 1]

\* Lexer::read_char: the Option<char> it returns and the index it leaves
read_char(s, index) == [c |-> peek_char(s, index), index |-> index + 1]

\* self.string[i]: the character, or a panic when i is out of range
At(s, i) ==
  IF i >= 0 /\ i < Len(s) THEN s[i + 1] ELSE Panic

\* &self.string[a..b] is a range of the buffer (it panics otherwise)
SliceOk(s, a, b) == a >= 0 /\ a <= b /\ b <= Len(s)

\* &self.string[a..b]
Slice(s, a, b) == SubSeq(s, a + 1, b)

\* what a sub-scanner leaves and returns: Some(out), None, or a panic
SubScan(index, kind, out) == [index |-> index, kind |-> kind, out |-> out]

\* the loop of read_number: the index it stops at
RECURSIVE number_loop(_, _, _)
number_loop(s, index, had_dot) ==
  LET c == peek_char(s, index) IN
    IF c = None THEN index
    ELSE IF c \in Digits
      THEN number_loop(s, read_char(s, index).index, had_dot)
    ELSE IF c = DOT /\ ~had_dot
      THEN number_loop(s, read_char(s, index).index, TRUE)
    ELSE index

\* &self.string[start..self.index] collected into a String
collected(s, start, index) ==
  IF SliceOk(s, start, index)
    THEN SubScan(index, "Some", Slice(s, start, index))
    ELSE SubScan(index, "Panic", <<>>)

\* a faulty back-off: a trailing '.' is kept
backed_off_never(s, start, stop) ==
  IF start = stop THEN SubScan(stop, "None", <<>>)
  ELSE collected(s, start, stop)

\* a faulty back-off: the character looked at is string[index], one too far
backed_off_ahead(s, start, stop) ==
  IF start = stop THEN SubScan(stop, "None", <<>>)
  ELSE IF At(s, stop) = Panic THEN SubScan(stop, "Panic", <<>>)
  ELSE IF At(s, stop) = DOT THEN collected(s, start, stop - 1)
  ELSE collected(s, start, stop)

\* what read_number and read_ident do once their loop has stopped at index
\* stop: None when nothing was read, otherwise a step back from a trailing
\* '.' and the characters from start
backed_off(s, start, stop) ==
  IF start = stop THEN SubScan(stop, "None", <<>>)
  ELSE IF At(s, stop - 1) = Panic THEN SubScan(stop, "Panic", <<>>)
  ELSE IF At(s, stop - 1) = DOT THEN collected(s, start, stop - 1)
  ELSE collected(s, start, stop)

\* Lexer::read_number: the index it leaves and the Option<String> it returns
read_number(s, start) == backed_off(s, start, number_loop(s, start, FALSE))

\* the loop of read_ident: the index it stops at
RECURSIVE ident_loop(_, _)
ident_loop(s, index) ==
  IF peek_char(s, index) \in IdentChars
    THEN ident_loop(s, read_char(s, index).index)
    ELSE index

\* Lexer::read_ident: the index it leaves and the Option<String> it returns
read_ident(s, start) == backed_off(s, start, ident_loop(s, start))

\* the while loop of the comment arm: read_char until '\n' or None has been
\* read; the index it leaves (read_char advances the index at None too)
RECURSIVE comment_loop(_, _)
comment_loop(s, index) ==
  LET r == read_char(s, index) IN
    IF r.c = None \/ r.c = NL THEN r.index
    ELSE comment_loop(s, r.index)

\* the loop of the string arm: read_char until '"' (closed) or None
RECURSIVE string_loop(_, _)
string_loop(s, index) ==
  LET r == read_char(s, index) IN
    IF r.c = None THEN [index |-> r.index, closed |-> FALSE]
    ELSE IF r.c = QUOTE THEN [index |-> r.index, closed |-> TRUE]
    ELSE string_loop(s, r.index)

\* the tokens of the arms that return at once
SingleChar ==
  {<<"(", "LParen">>, <<")", "RParen">>, <<"{", "LBrace">>,
   <<"}", "RBrace">>, <<";", "Semicolon">>, <<"*", "Star">>,
   <<".", "Dot">>, <<",", "Comma">>, <<"+", "Plus">>, <<"-", "Minus">>}

\* the arms that peek for '=': character -> <<with '=', without>>
TwoChar ==
  {<<"=", "EqualEqual", "Equal">>, <<"!", "BangEqual", "Bang">>,
   <<"<", "LessEqual", "Less">>, <<">", "GreaterEqual", "Greater">>}

\* "[line {}] Error: " with self.line, the start of both eprintln! formats
LineError(n) ==
  <<"[", "l", "i", "n", "e", " ">> \o DecimalDigits(n) \o
  <<"]", " ", "E", "r", "r", "o", "r", ":", " ">>

\* a faulty format: no period after Unterminated string
UnterminatedText_bare(n) ==
  LineError(n) \o
  <<"U", "n", "t", "e", "r", "m", "i", "n", "a", "t", "e", "d", " ",
    "s", "t", "r", "i", "n", "g">>

\* eprintln!("[line {}] Error: Unterminated string.", self.line)
UnterminatedText(n) ==
  LineError(n) \o
  <<"U", "n", "t", "e", "r", "m", "i", "n", "a", "t", "e", "d", " ",
    "s", "t", "r", "i", "n", "g", ".">>

\* eprintln!("[line {}] Error: Unexpected character: {}", self.line, c)
UnexpectedText(n, c) ==
  LineError(n) \o
  <<"U", "n", "e", "x", "p", "e", "c", "t", "e", "d", " ",
    "c", "h", "a", "r", "a", "c", "t", "e", "r", ":", " ", c>>

\* one entry of the error stream, with the index of the construct it is about
Diag(kind, at, n, text) ==
  [kind |-> kind, at |-> at, line |-> n, text |-> text]

\* What an arm of the match in read_token does to the lexer l2 it is entered
\* with (the character c read at index at, the column counted): the lexer it
\* leaves and the token it returns, NoToken when it continues 'main_lex.
Arm(arm, lx, ret) == [arm |-> arm, lx |-> lx, ret |-> ret]

\* '(' ')' '{' '}' ';' '*' '.' ',' '+' '-'
single_arm(c, l2) ==
  Arm("single", l2, Tok((CHOOSE p \in SingleChar : p[1] = c)[2]))

\* a faulty operator arm: the character after the operator is consumed
\* whatever it is
operator_arm_consuming(s, c, l2) ==
  LET p == CHOOSE q \in TwoChar : q[1] = c
      l3 == [l2 EXCEPT !.index = read_char(s, l2.index).index]
  IN IF peek_char(s, l2.index) = "="
       THEN Arm("operator", l3, Tok(p[2]))
       ELSE Arm("operator", l3, Tok(p[3]))

\* '=' '!' '<' '>'
operator_arm(s, c, l2) ==
  LET p == CHOOSE q \in TwoChar : q[1] = c IN
    IF peek_char(s, l2.index) = "="
      THEN Arm("operator",
               [l2 EXCEPT !.index = read_char(s, l2.index).index], Tok(p[2]))
      ELSE Arm("operator", l2, Tok(p[3]))

\* '/'
slash_arm(s, l2) ==
  IF peek_char(s, l2.index) = "/"
    THEN Arm("comment",
             [l2 EXCEPT !.index = comment_loop(s, l2.index), !.line = @ + 1],
             NoToken)
    ELSE Arm("slash", l2, Tok("Slash"))

\* the diagnostic of the string arm and its continue 'main_lex
unterminated(at, l3) ==
  Arm("unterminated",
      [l3 EXCEPT
         !.stderr = Append(@, Diag("unterminated", at, l3.line,
                                   UnterminatedText(l3.line))),
         !.error = TRUE],
      NoToken)

\* Token::String(chars.iter().collect()) of &self.string[start..stop]
string_of(s, start, stop, l3) ==
  IF SliceOk(s, start, stop)
    THEN Arm("string", l3, TokS("String", Slice(s, start, stop)))
    ELSE Arm("string", l3, PanicToken)

\* a faulty string arm: the slice runs to the index, closing quote included
string_token_with_quote(s, at, l2, r) ==
  IF r.closed
    THEN string_of(s, l2.index, r.index, [l2 EXCEPT !.index = r.index])
    ELSE unterminated(at, [l2 EXCEPT !.index = r.index])

\* the string arm once its loop has ended as r
string_token(s, at, l2, r) ==
  IF r.closed
    THEN string_of(s, l2.index, r.index - 1, [l2 EXCEPT !.index = r.index])
    ELSE unterminated(at, [l2 EXCEPT !.index = r.index])

\* '"'
string_arm(s, at, l2) == string_token(s, at, l2, string_loop(s, l2.index))

\* Token::Number(num.parse()?, num)
parsed(val, str) == IF val.ok THEN TokNumber(val, str) ELSE ErrToken

\* the number arm once read_number has returned r
number_token(l2, r) ==
  Arm("number", [l2 EXCEPT !.index = r.index],
      CASE r.kind = "None" -> NoToken
        [] r.kind = "Panic" -> PanicToken
        [] OTHER -> parsed(ParseF64(r.out), r.out))

\* the identifier arm once read_ident has returned r
ident_token(l2, r) ==
  Arm("ident", [l2 EXCEPT !.index = r.index],
      CASE r.kind = "None" -> NoToken
        [] r.kind = "Panic" -> PanicToken
        [] KeywordsGet(r.out) # None -> Tok(KeywordsGet(r.out))
        [] OTHER -> TokS("Ident", r.out))

\* '0'..='9'
number_arm(s, l2) == number_token(l2, read_number(s, l2.index - 1))

\* 'a'..='z' | 'A'..='Z' | '_'
ident_arm(s, l2) == ident_token(l2, read_ident(s, l2.index - 1))

\* a faulty newline arm: line and column are taken for one another
newline_arm_swapped(l2) ==
  Arm("newline", [l2 EXCEPT !.line = 0, !.column = @ + 1], NoToken)

\* '\n'
newline_arm(l2) ==
  Arm("newline", [l2 EXCEPT !.line = @ + 1, !.column = 0], NoToken)

\* whitespace if whitespace.is_whitespace()
whitespace_arm(l2) == Arm("whitespace", l2, NoToken)

\* a faulty last arm: the character after the unexpected one is skipped too
unexpected_arm_skipping(at, c, l2) ==
  Arm("unexpected",
      [l2 EXCEPT
         !.stderr = Append(@, Diag("unexpected", at, l2.line,
                                   UnexpectedText(l2.line, c))),
         !.error = TRUE,
         !.index = @ + 1],
      NoToken)

\* _
unexpected_arm(at, c, l2) ==
  Arm("unexpected",
      [l2 EXCEPT
         !.stderr = Append(@, Diag("unexpected", at, l2.line,
                                   UnexpectedText(l2.line, c))),
         !.error = TRUE],
      NoToken)

\* the match c of read_token
dispatch(s, at, c, l2) ==
  CASE \E p \in SingleChar : p[1] = c -> single_arm(c, l2)
    [] \E p \in TwoChar : p[1] = c -> operator_arm(s, c, l2)
    [] c = "/" -> slash_arm(s, l2)
    [] c = QUOTE -> string_arm(s, at, l2)
    [] c \in Digits -> number_arm(s, l2)
    [] c \in IdentStart -> ident_arm(s, l2)
    [] c = NL -> newline_arm(l2)
    [] c \in Whitespace \ {NL} -> whitespace_arm(l2)
    [] OTHER -> unexpected_arm(at, c, l2)

\* one entry of the history: the iteration of 'main_lex that read character
\* c at index at with the lexer lx0 and left the lexer lx1, through arm,
\* returning ret (NoToken when the iteration continues the loop)
Step(arm, at, c, lx0, lx1, ret) ==
  [arm |-> arm, at |-> at, c |-> c, line0 |-> lx0.line, line1 |-> lx1.line,
   index1 |-> lx1.index, ret |-> ret]

Logged(arm, at, c, lx0, lx1, ret) ==
  [lx1 EXCEPT !.trace = Append(@, Step(arm, at, c, lx0, lx1, ret))]

RECURSIVE read_token(_, _)

\* the end of an iteration of 'main_lex whose arm ended as a: continue, or
\* return the token
continued(s, lx, at, c, a) ==
  IF a.ret = NoToken
    THEN read_token(s, Logged(a.arm, at, c, lx, a.lx, a.ret))
    ELSE [lx |-> Logged(a.arm, at, c, lx, a.lx, a.ret), ret |-> a.ret]

\* an iteration of 'main_lex once read_char has returned r: EOF at None,
\* otherwise the column is counted and the character matched
matched(s, lx, r) ==
  IF r.c = None
    THEN [lx |-> Logged("eof", lx.index, r.c, lx,
                        [lx EXCEPT !.index = r.index, !.done = TRUE],
                        Tok("EOF")),
          ret |-> Tok("EOF")]
    ELSE continued(s, lx, lx.index, r.c,
                   dispatch(s, lx.index, r.c,
                            [lx EXCEPT !.index = r.index, !.column = @ + 1]))

\* Lexer::read_token: the lexer it leaves and the Result it returns
read_token(s, lx) == matched(s, lx, read_char(s, lx.index))

\* Result::ok: the Err of read_token becomes None
ok(r) == IF r.ret = ErrToken THEN [lx |-> r.lx, ret |-> NoToken] ELSE r

\* a faulty next: None as soon as the cursor is at the end of the input
next_at_end(s, lx) ==
  IF lx.done \/ lx.index >= Len(s)
    THEN [lx |-> Logged("done", lx.index, None, lx, lx, NoToken),
          ret |-> NoToken]
    ELSE ok(read_token(s, lx))

\* a faulty next: the error flag is the flag of the call, cleared when a
\* call starts
next_resetting(s, lx) ==
  IF lx.done
    THEN [lx |-> Logged("done", lx.index, None, lx, lx, NoToken),
          ret |-> NoToken]
    ELSE ok(read_token(s, [lx EXCEPT !.error = FALSE]))

\* Iterator for Lexer, next: the lexer it leaves and the Option it returns
\* (PanicToken when the call panics)
next(s, lx) ==
  IF lx.done
    THEN [lx |-> Logged("done", lx.index, None, lx, lx, NoToken),
          ret |-> NoToken]
    ELSE ok(read_token(s, lx))

\* ------------------------------------------------------------ the program
VARIABLES
  string,    \* Lexer.string, the source text
  index,     \* Lexer.index
  line,      \* Lexer.line
  column,    \* Lexer.column
  error,     \* Lexer.error
  done,      \* Lexer.done
  command,   \* args[1] of main, None when the iterator is called directly
  pc,        \* "main": in the loop of main, "direct": a caller of next(),
             \* "exited": the process has ended
  stdout,    \* the lines printed with println!
  stderr,    \* the lines printed with eprintln!
  exitCode,  \* the exit code of the process, -1 while it runs
  trace      \* history: the iterations of 'main_lex and the calls after done

vars == <<string, index, line, column, error, done, command, pc, stdout,
          stderr, exitCode, trace>>

\* the characters the source texts are drawn from
Alphabet == {"(", "=", "/", QUOTE, NL, " ", "@", "1", DOT, "i"}
OperatorAlphabet == {"=", "!", "<", ">", "(", " "}
IdentAlphabet == {"i", "f", "I", "_", "1", " "}
NumberAlphabet == {"0", "1", "2", DOT, " ", "a"}

\* the source texts of at most len characters of alphabet
Texts(alphabet, len) == UNION {[1..n -> alphabet] : n \in 0..len}

Commands == {"tokenize", "parse", "other"}

\* the Lexer value of the current state
Lexer ==
  [index |-> index, line |-> line, column |-> column, error |-> error,
   done |-> done, stderr |-> stderr, trace |-> trace]

\* the assignment of the Lexer value lx to the lexer's variables
LexerBecomes(lx) ==
  /\ index' = lx.index
  /\ line' = lx.line
  /\ column' = lx.column
  /\ error' = lx.error
  /\ done' = lx.done
  /\ stderr' = lx.stderr
  /\ trace' = lx.trace

\* main up to the match on the command: Lexer::new(&file)
InitOver(alphabet, len) ==
  /\ string \in Texts(alphabet, len)
  /\ index = LexerNew.index
  /\ line = LexerNew.line
  /\ column = LexerNew.column
  /\ error = LexerNew.error
  /\ done = LexerNew.done
  /\ stderr = LexerNew.stderr
  /\ trace = LexerNew.trace
  /\ \/ command \in Commands /\ pc = "main"
     \/ command = None /\ pc = "direct"
  /\ stdout = <<>>
  /\ exitCode = -1

Init == InitOver(Alphabet, MaxLen)

\* the calls of next() that found the lexer done
ExtraCalls == Cardinality({i \in 1..Len(trace) : trace[i].arm = "done"})

\* the caller has the return r of next()
iter_returned(r) ==
  /\ LexerBecomes(r.lx)
  /\ pc' = IF r.ret = PanicToken THEN "exited" ELSE pc
  /\ exitCode' = IF r.ret = PanicToken THEN 101 ELSE exitCode

\* a caller of the iterator calls next()
IterNext ==
  /\ pc = "direct"
  /\ ExtraCalls < MaxExtraCalls
  /\ iter_returned(next(string, Lexer))
  /\ UNCHANGED <<string, command, stdout>>

\* a faulty exit: the error flag is not looked at
tokenize_exit_zero(err) == 0

\* the exit code after the loop of "tokenize": if lexer.error exit(65),
\* otherwise main returns Ok(())
tokenize_exit(err) == IF err THEN 65 ELSE 0

\* the loop of "tokenize" has the return r of next(): println!("{}", tok)
\* for Some(tok), the end of the loop and the exit for None
tokenize_returned(r) ==
  /\ LexerBecomes(r.lx)
  /\ CASE r.ret = PanicToken ->
            /\ pc' = "exited"
            /\ exitCode' = 101
            /\ UNCHANGED stdout
       [] r.ret = NoToken ->
            /\ pc' = "exited"
            /\ exitCode' = tokenize_exit(r.lx.error)
            /\ UNCHANGED stdout
       [] OTHER ->
            /\ stdout' = Append(stdout, Display(r.ret))
            /\ UNCHANGED <<pc, exitCode>>

\* "tokenize": one iteration of for tok in &mut lexer, and what follows the
\* loop when next() returns None
MainTokenize ==
  /\ pc = "main"
  /\ command = "tokenize"
  /\ tokenize_returned(next(string, Lexer))
  /\ UNCHANGED <<string, command>>

RECURSIVE filter_next(_, _)

\* the predicate of the filter on the return r of next(): EOF is passed over
filtered(s, r) ==
  IF r.ret = Tok("EOF") THEN filter_next(s, r.lx) ELSE r

\* Filter::next over the lexer: next() until a token that is not EOF, or None
filter_next(s, lx) == filtered(s, next(s, lx))

\* the loop of "parse" has the return r of the filter:
\* println!("{}", tok.tok_print()) for Some(tok), the return of main for None
parse_returned(r) ==
  /\ LexerBecomes(r.lx)
  /\ CASE r.ret = PanicToken ->
            /\ pc' = "exited"
            /\ exitCode' = 101
            /\ UNCHANGED stdout
       [] r.ret = NoToken ->
            /\ pc' = "exited"
            /\ exitCode' = 0
            /\ UNCHANGED stdout
       [] OTHER ->
            /\ stdout' = Append(stdout, <<tok_print(r.ret)>>)
            /\ UNCHANGED <<pc, exitCode>>

\* "parse": one iteration of the loop over the filtered lexer, and the
\* return of main when it ends
MainParse ==
  /\ pc = "main"
  /\ command = "parse"
  /\ parse_returned(filter_next(string, Lexer))
  /\ UNCHANGED <<string, command>>

\* any other command: bail!, main returns Err
MainOther ==
  /\ pc = "main"
  /\ command = "other"
  /\ pc' = "exited"
  /\ exitCode' = 1
  /\ UNCHANGED <<string, index, line, column, error, done, command, stdout,
                 stderr, trace>>

Next == IterNext \/ MainTokenize \/ MainParse \/ MainOther

Spec == Init /\ [][Next]_vars

\* the same program over texts of operators, of identifiers and of numbers
InitOperators == InitOver(OperatorAlphabet, MaxLen)
SpecOperators == InitOperators /\ [][Next]_vars

InitIdents == InitOver(IdentAlphabet, MaxLen + 1)
SpecIdents == InitIdents /\ [][Next]_vars

InitNumbers == InitOver(NumberAlphabet, MaxLen)
SpecNumbers == InitNumbers /\ [][Next]_vars

\* ---------------------------------------------------------------- history
\* the entries of a history at which a call of next() returned
Returning(e) == e.arm = "done" \/ e.ret # NoToken

\* what that call returned: .ok() turns the Err of read_token into None
ReturnOf(e) == IF e.ret = ErrToken THEN NoToken ELSE e.ret

ReturnsOf(tr) ==
  LET rs == SelectSeq(tr, Returning)
  IN [i \in 1..Len(rs) |-> ReturnOf(rs[i])]

\* what the calls of next() so far have returned, in order
Returned == ReturnsOf(trace)

IsToken(r) == r # NoToken /\ r # PanicToken

\* the tokens yielded so far, in order
Yielded == SelectSeq(Returned, IsToken)

\* the entries of the history that returned a token other than EOF
TokenSteps ==
  {i \in 1..Len(trace) : IsToken(ReturnOf(trace[i])) /\ trace[i].arm # "eof"}

\* the number of '\n' among the first n characters of s
RECURSIVE NewlinesBefore(_, _)
NewlinesBefore(s, n) ==
  IF n = 0 THEN 0
  ELSE NewlinesBefore(s, n - 1) + (IF s[n] = NL THEN 1 ELSE 0)

Positions(tr, arm) == {tr[i].at : i \in {j \in 1..Len(tr) : tr[j].arm = arm}}

\* ------------------------------------------------------------------- C1
\* C1: the calls of next() return tokens, then EOF exactly once, then only
\* None: nothing but None follows EOF, None is never returned before EOF, no
\* call panics, EOF has been returned exactly when the lexer is done, and
\* at most one token per character of the source precedes EOF.
C1_EofOnceThenNone ==
  /\ \A i \in 1..Len(Returned) :
       /\ Returned[i] # PanicToken
       /\ Returned[i] = Tok("EOF") =>
            \A j \in (i + 1)..Len(Returned) : Returned[j] = NoToken
       /\ Returned[i] = NoToken =>
            \E j \in 1..(i - 1) : Returned[j] = Tok("EOF")
  /\ done <=> \E i \in 1..Len(Returned) : Returned[i] = Tok("EOF")
  /\ Len(Yielded) <= Len(string) + 1
  /\ (pc = "exited" /\ command \in {"tokenize", "parse"}) =>
       /\ Yielded # <<>>
       /\ Yielded[Len(Yielded)] = Tok("EOF")
       /\ Returned[Len(Returned)] = NoToken

\* next() has been called twice after EOF, which followed two other tokens
C1_Witness ==
  /\ pc = "direct"
  /\ ExtraCalls >= 2
  /\ Len(Yielded) >= 3
  /\ Yielded[Len(Yielded)] = Tok("EOF")

\* ------------------------------------------------------------------- C2
\* C2: every diagnostic is tagged with 1 plus the number of '\n' characters
\* of the source before the first character of the construct it is about.
C2_DiagLineIsStartLine ==
  \A k \in 1..Len(stderr) :
    stderr[k].line = 1 + NewlinesBefore(string, stderr[k].at)

\* ------------------------------------------------------------------- C3
\* the characters some arm of the match other than the last is for
Recognised ==
  {"(", ")", "{", "}", ";", "*", ".", ",", "+", "-", "=", "!", "<", ">",
   "/", QUOTE} \cup Digits \cup IdentStart \cup Whitespace

\* s with a space in place of the characters at the indices of at
Blanked(s, at) ==
  [i \in 1..Len(s) |-> IF (i - 1) \in at THEN " " ELSE s[i]]

RECURSIVE exhaust(_, _)

\* the lexer once a call of next() has returned r, and every call after it
exhausted(s, r) == IF IsToken(r.ret) THEN exhaust(s, r.lx) ELSE r.lx

\* the lexer after next() has been called until it returns no token
exhaust(s, lx) == exhausted(s, next(s, lx))

\* the tokens the scanner yields for the source s
TokensOf(s) == SelectSeq(ReturnsOf(exhaust(s, LexerNew).trace), IsToken)

\* C3: a character that matches no rule, read by the dispatcher, gets
\* exactly one Unexpected character diagnostic, sets the error flag, yields
\* no token and leaves the cursor on the very next character; the tokens of
\* the whole input are those of the input with a space in place of each
\* such character.
C3_UnexpectedIsSkipped ==
  /\ \A i \in 1..Len(trace) :
       (trace[i].c # None /\ trace[i].c \notin Recognised) =>
         /\ trace[i].arm = "unexpected"
         /\ Cardinality({k \in 1..Len(stderr) :
                           stderr[k].at = trace[i].at}) = 1
         /\ \A k \in 1..Len(stderr) :
              stderr[k].at = trace[i].at =>
                /\ stderr[k].kind = "unexpected"
                /\ stderr[k].text[Len(stderr[k].text)] = trace[i].c
         /\ error
         /\ trace[i].ret = NoToken
         /\ trace[i].index1 = trace[i].at + 1
         /\ \A j \in TokenSteps : trace[j].at # trace[i].at
  /\ done => Yielded = TokensOf(Blanked(string, Positions(trace, "unexpected")))

\* the scan is over, an unexpected character stood between two tokens
C3_Witness ==
  /\ done
  /\ \E i \in 1..Len(trace) :
       /\ trace[i].arm = "unexpected"
       /\ \E j \in TokenSteps : trace[j].at < trace[i].at
       /\ \E j \in TokenSteps : trace[j].at > trace[i].at

\* ------------------------------------------------------------------- C4
QuoteAfter(s, at) == \E j \in (at + 2)..Len(s) : s[j] = QUOTE

\* C4: an opening '"' with no '"' after it gets exactly one Unterminated
\* string diagnostic tagged with the line the opening quote is on, sets the
\* error flag, yields no STRING token, and the call returns EOF.
C4_UnterminatedThenEof ==
  \A i \in 1..Len(trace) :
    (trace[i].c = QUOTE /\ ~QuoteAfter(string, trace[i].at)) =>
      /\ Cardinality({k \in 1..Len(stderr) : stderr[k].at = trace[i].at}) = 1
      /\ \A k \in 1..Len(stderr) :
           stderr[k].at = trace[i].at =>
             /\ stderr[k].kind = "unterminated"
             /\ stderr[k].line = 1 + NewlinesBefore(string, trace[i].at)
      /\ error
      /\ trace[i].ret = NoToken
      /\ Len(trace) > i
      /\ trace[i + 1].ret = Tok("EOF")

\* ------------------------------------------------------------------- C5
\* the length of the longest run of characters of set in s from index at
RECURSIVE RunLength(_, _, _)
RunLength(s, at, set) ==
  IF at < Len(s) /\ s[at + 1] \in set THEN 1 + RunLength(s, at + 1, set)
  ELSE 0

\* the text of the number that starts at index at of s: the longest run of
\* digits, and a '.' with the longest run of digits after it when there is
\* at least one
NumberText(s, at) ==
  LET n == RunLength(s, at, Digits)
      m == RunLength(s, at + n + 1, Digits)
  IN IF at + n < Len(s) /\ s[at + n + 1] = DOT /\ m > 0
       THEN SubSeq(s, at + 1, at + n + 1 + m)
       ELSE SubSeq(s, at + 1, at + n)

\* C5: a digit read by the dispatcher yields a NUMBER whose lexeme is the
\* longest run of digits from there, with a '.' and the digits after it only
\* when a digit follows the '.'; the cursor is left right after the lexeme,
\* and a '.' left there is the next token, DOT.
C5_NumberLexeme ==
  \A i \in 1..Len(trace) :
    trace[i].c \in Digits =>
      LET text == NumberText(string, trace[i].at)
          stop == trace[i].at + Len(text)
      IN /\ token_type(trace[i].ret) = "NUMBER"
         /\ lexeme(trace[i].ret) = text
         /\ trace[i].index1 = stop
         /\ (stop < Len(string) /\ string[stop + 1] = DOT /\ Len(trace) > i) =>
              /\ trace[i + 1].at = stop
              /\ trace[i + 1].ret = Tok("Dot")

\* digits and a '.' with no digit after it have been scanned to the end:
\* NUMBER, DOT, EOF
C5_Witness ==
  /\ Len(string) = 3
  /\ string[1] \in Digits /\ string[2] \in Digits /\ string[3] = DOT
  /\ Len(Yielded) = 3
  /\ token_type(Yielded[1]) = "NUMBER"
  /\ lexeme(Yielded[1]) = SubSeq(string, 1, 2)
  /\ Yielded[2] = Tok("Dot")
  /\ Yielded[3] = Tok("EOF")

\* ------------------------------------------------------------------- C6
\* C6: for '=', '!', '<', '>' read by the dispatcher, a following '=' is
\* consumed and the combined token is yielded; otherwise the single token
\* is yielded and the cursor is one past the character read, so that the
\* following character is the next one scanned.
C6_OperatorPeek ==
  \A i \in 1..Len(trace) :
    trace[i].c \in {"=", "!", "<", ">"} =>
      LET at == trace[i].at
          eq == at + 1 < Len(string) /\ string[at + 2] = "="
          name == CASE trace[i].c = "=" -> "EQUAL"
                    [] trace[i].c = "!" -> "BANG"
                    [] trace[i].c = "<" -> "LESS"
                    [] trace[i].c = ">" -> "GREATER"
      IN /\ eq => /\ token_type(trace[i].ret) \in
                       {"EQUAL_EQUAL", "BANG_EQUAL", "LESS_EQUAL",
                        "GREATER_EQUAL"}
                  /\ lexeme(trace[i].ret) = <<trace[i].c, "=">>
                  /\ trace[i].index1 = at + 2
         /\ ~eq => /\ token_type(trace[i].ret) = name
                   /\ lexeme(trace[i].ret) = <<trace[i].c>>
                   /\ trace[i].index1 = at + 1
         /\ Len(trace) > i => trace[i + 1].at = trace[i].index1

\* === has been scanned to the end: EQUAL_EQUAL, EQUAL, EOF
C6_Witness ==
  /\ string = <<"=", "=", "=">>
  /\ Yielded = <<Tok("EqualEqual"), Tok("Equal"), Tok("EOF")>>

\* ------------------------------------------------------------------- C7
Spellings == {kw[1] : kw \in KEYWORDS}

\* C7: a letter or underscore read by the dispatcher consumes the longest
\* run of letters, digits and underscores; the token is a reserved word
\* exactly when the run is one of the 16 keyword spellings, and then the
\* one spelled so; otherwise it is an IDENTIFIER carrying the run.
C7_KeywordOrIdentifier ==
  /\ Cardinality(Spellings) = 16
  /\ \A i \in 1..Len(trace) :
       trace[i].c \in IdentStart =>
         LET at == trace[i].at
             run == SubSeq(string, at + 1,
                           at + RunLength(string, at, IdentChars))
         IN /\ trace[i].index1 = at + Len(run)
            /\ lexeme(trace[i].ret) = run
            /\ trace[i].ret.type \in KeywordVariants <=> run \in Spellings
            /\ run \notin Spellings => trace[i].ret = TokS("Ident", run)
            /\ run \in Spellings =>
                 /\ trace[i].ret.s = <<>>
                 /\ literal(trace[i].ret) = <<"n", "u", "l", "l">>

\* a keyword and identifiers that start with it or differ from it in case
\* have been yielded
C7_Witness ==
  /\ \E i \in 1..Len(Yielded) : Yielded[i] = Tok("If")
  /\ \E i \in 1..Len(Yielded) :
       /\ Yielded[i].type = "Ident"
       /\ Yielded[i].s \in {<<"i", "f", "f">>, <<"I", "f">>, <<"i", "f", "1">>,
                            <<"_", "i", "f">>}

\* ------------------------------------------------------------------- C8
\* the index of the first '"' of s after index at
FirstQuoteAfter(s, at) ==
  CHOOSE j \in (at + 1)..(Len(s) - 1) :
    /\ s[j + 1] = QUOTE
    /\ \A k \in (at + 1)..(j - 1) : s[k + 1] # QUOTE

\* C8: an opening '"' with a '"' after it yields exactly one STRING token
\* whose literal is the characters strictly between the two, as they are,
\* whose lexeme is that body in quotes; the cursor is left right after the
\* closing quote.
C8_StringBody ==
  \A i \in 1..Len(trace) :
    (trace[i].c = QUOTE /\ QuoteAfter(string, trace[i].at)) =>
      LET at == trace[i].at
          close == FirstQuoteAfter(string, at)
          body == SubSeq(string, at + 2, close)
      IN /\ token_type(trace[i].ret) = "STRING"
         /\ literal(trace[i].ret) = body
         /\ lexeme(trace[i].ret) = SubSeq(string, at + 1, close + 1)
         /\ trace[i].index1 = close + 1
         /\ Cardinality({j \in TokenSteps :
                           trace[j].at \in at..close}) = 1

\* a string with a newline and a slash in its body has been yielded
C8_Witness ==
  \E i \in 1..Len(Yielded) :
    /\ Yielded[i].type = "String"
    /\ literal(Yielded[i]) \in {<<NL, "/">>, <<"/", NL>>}

\* ------------------------------------------------------------------- C9
NewlineAfter(s, at) == \E j \in (at + 1)..Len(s) : s[j] = NL

\* the number of characters of s from index at up to the next '\n' or the end
RECURSIVE CommentLength(_, _)
CommentLength(s, at) ==
  IF at < Len(s) /\ s[at + 1] # NL THEN 1 + CommentLength(s, at + 1) ELSE 0

\* C9: '/' followed by '/' yields no token for the characters up to the
\* next newline or the end of input, the line counter grows by the number
\* of '\n' read (one when a newline ends the comment, none when the end of
\* input does), and the scan resumes after the comment.
C9_CommentLine ==
  \A i \in 1..Len(trace) :
    (/\ trace[i].c = "/"
     /\ trace[i].at + 1 < Len(string)
     /\ string[trace[i].at + 2] = "/") =>
      LET at == trace[i].at
          len == CommentLength(string, at)
      IN /\ trace[i].ret = NoToken
         /\ \A j \in TokenSteps : ~(trace[j].at \in at..(at + len - 1))
         /\ trace[i].index1 >= at + len
         /\ trace[i].line1 =
              trace[i].line0 + (IF NewlineAfter(string, at) THEN 1 ELSE 0)

\* ------------------------------------------------------------------ C10
\* C10: in tokenize mode, once the stream is exhausted the error flag is
\* true exactly when a diagnostic was written, and the exit code is 65 when
\* it is true and 0 when it is not.
C10_ExitCode ==
  (command = "tokenize" /\ pc = "exited") =>
    /\ Returned # <<>> /\ Returned[Len(Returned)] = NoToken
    /\ error <=> stderr # <<>>
    /\ error => exitCode = 65
    /\ ~error => exitCode = 0

\* tokenize has ended with exit code 65 after a diagnostic and two tokens
C10_Witness ==
  /\ command = "tokenize"
  /\ pc = "exited"
  /\ exitCode = 65
  /\ Len(stderr) >= 1
  /\ Len(stdout) >= 2

\* ------------------------------------------------------------------ C11
\* the iterations of the history that returned a token, EOF included
YieldSteps == {i \in 1..Len(trace) : IsToken(ReturnOf(trace[i]))}

\* the characters of s the iteration e consumed: from the index it read its
\* first character at up to the index it left
Consumed(s, e) ==
  IF e.at >= Len(s) THEN <<>> ELSE SubSeq(s, e.at + 1, e.index1)

\* C11: the lexeme of every token yielded, computed from the token alone,
\* is the run of source characters the scanner consumed for it (empty for
\* EOF, with both quotes for STRING), and the runs of successive tokens do
\* not overlap.
C11_LexemeIsSource ==
  /\ \A i \in YieldSteps :
       /\ lexeme(trace[i].ret) = Consumed(string, trace[i])
       /\ trace[i].arm = "eof" => lexeme(trace[i].ret) = <<>>
       /\ trace[i].arm # "eof" =>
            /\ trace[i].index1 <= Len(string)
            /\ trace[i].index1 = trace[i].at + Len(lexeme(trace[i].ret))
            /\ Len(lexeme(trace[i].ret)) >= 1
  /\ \A i, j \in YieldSteps : i < j => trace[i].index1 <= trace[j].at

\* a STRING and a token after it have been yielded, then EOF
C11_Witness ==
  /\ done
  /\ \E i, j \in YieldSteps :
       /\ i < j
       /\ trace[i].ret.type = "String"
       /\ Len(trace[i].ret.s) >= 1
       /\ trace[j].arm # "eof"

\* ------------------------------------------------------------------ C12
\* the line "[line <n>] Error: <message>" followed by the characters of end
DiagnosticLine(n, message, end) ==
  <<"[", "l", "i", "n", "e", " ">> \o DecimalDigits(n) \o
  <<"]", " ", "E", "r", "r", "o", "r", ":", " ">> \o message \o end

MessageUnterminated ==
  <<"U", "n", "t", "e", "r", "m", "i", "n", "a", "t", "e", "d", " ",
    "s", "t", "r", "i", "n", "g">>

MessageUnexpected(c) ==
  <<"U", "n", "e", "x", "p", "e", "c", "t", "e", "d", " ",
    "c", "h", "a", "r", "a", "c", "t", "e", "r", ":", " ", c>>

\* the message of the diagnostic d: by its kind, about the character at d.at
MessageOf(d) ==
  IF d.kind = "unterminated" THEN MessageUnterminated
  ELSE MessageUnexpected(string[d.at + 1])

ErrorSteps ==
  {i \in 1..Len(trace) : trace[i].arm \in {"unterminated", "unexpected"}}

\* the diagnostics are on the error stream, one for each error found, and
\* the output stream holds the printed tokens and nothing else
OnErrorChannel ==
  /\ Len(stderr) = Cardinality(ErrorSteps)
  /\ \A k \in 1..Len(stderr) :
       /\ stderr[k].kind \in {"unterminated", "unexpected"}
       /\ \E i \in ErrorSteps :
            trace[i].at = stderr[k].at /\ trace[i].arm = stderr[k].kind
  /\ command = "tokenize" =>
       stdout = [i \in 1..Len(Yielded) |-> Display(Yielded[i])]
  /\ command = "parse" =>
       /\ Len(stdout) = Cardinality(TokenSteps)
       /\ \A i \in 1..Len(stdout) : stdout[i] = <<tok_print(Yielded[i])>>
  /\ command \notin {"tokenize", "parse"} => stdout = <<>>

\* C12 as stated: every diagnostic is '[line <n>] Error: <message>.' with a
\* final period, for both messages, and is on the error channel only.
C12_DiagnosticEndsWithPeriod ==
  /\ \A k \in 1..Len(stderr) :
       stderr[k].text =
         DiagnosticLine(stderr[k].line, MessageOf(stderr[k]), <<".">>)
  /\ OnErrorChannel

\* C12, amended: every diagnostic is '[line <n>] Error: <message>', with a
\* final period after 'Unterminated string' and none after 'Unexpected
\* character: <char>', and is on the error channel only.
C12_DiagnosticFormat ==
  /\ \A k \in 1..Len(stderr) :
       stderr[k].text =
         DiagnosticLine(stderr[k].line, MessageOf(stderr[k]),
                        IF stderr[k].kind = "unterminated"
                          THEN <<".">> ELSE <<>>)
  /\ OnErrorChannel

\* tokenize has printed EOF after one diagnostic of each kind
C12_Witness ==
  /\ command = "tokenize"
  /\ stdout # <<>>
  /\ \E k \in 1..Len(stderr) : stderr[k].kind = "unterminated"
  /\ \E k \in 1..Len(stderr) : stderr[k].kind = "unexpected"

\* ------------------------------------------------------------------ C13
\* the characters of the source the cursor has passed
ConsumedCount == IF index <= Len(string) THEN index ELSE Len(string)

\* C13: in every state the line counter is 1 plus the number of newlines
\* the cursor has consumed, whatever arm consumed them (whitespace, string
\* literal, end of a comment), and it grows for no other reason.
C13_LineCountsNewlines ==
  line = 1 + NewlinesBefore(string, ConsumedCount)

\* ------------------------------------------------------------------ C14
\* the entries of the history that end a call of next()
CallEnds == {i \in 1..Len(trace) : Returning(trace[i])}

\* the first iteration of the call of next() that the iteration i is part of
CallStart(i) ==
  CHOOSE j \in 1..i :
    /\ \A k \in j..(i - 1) : ~Returning(trace[k])
    /\ j > 1 => Returning(trace[j - 1])

\* the iterations follow one another at the cursor, and the cursor is where
\* the last of them left it
Contiguous ==
  /\ \A i \in 1..(Len(trace) - 1) : trace[i + 1].at = trace[i].index1
  /\ trace # <<>> => trace[1].at = 0 /\ index = trace[Len(trace)].index1
  /\ trace = <<>> => index = 0

\* C14 as stated: no step moves the index back, the un-read of a sub-scanner
\* apart, and the index after every call of next() is strictly greater than
\* the index before it.
C14_EveryCallAdvances ==
  /\ Contiguous
  /\ \A i \in 1..Len(trace) : trace[i].index1 >= trace[i].at
  /\ \A i \in CallEnds : trace[i].index1 > trace[CallStart(i)].at

\* C14, amended: no step moves the index back, every iteration of the scan
\* loop leaves the index strictly greater than it found it (the un-read of
\* the number and identifier sub-scanners included), so that the index after
\* a call of next() made before EOF was returned is strictly greater than
\* before the call; a call made after EOF was returned leaves the index as
\* it is.
C14_IndexAdvancesUntilDone ==
  /\ Contiguous
  /\ \A i \in 1..Len(trace) :
       IF trace[i].arm = "done"
         THEN trace[i].index1 = trace[i].at
         ELSE trace[i].index1 > trace[i].at
  /\ \A i \in CallEnds :
       IF trace[i].arm = "done"
         THEN /\ CallStart(i) = i
              /\ \E j \in 1..(i - 1) : trace[j].arm = "eof"
         ELSE trace[i].index1 > trace[CallStart(i)].at
  /\ \A i \in 1..Len(trace) :
       trace[i].arm \in {"number", "ident"} =>
         /\ trace[i].index1 <= Len(string)
         /\ \A k \in (trace[i].at + 1)..trace[i].index1 :
              string[k] \in IdentChars \cup {DOT}

\* a number has un-read the character after it, a later call has returned
\* EOF, and a call after that one has returned None
C14_Witness ==
  \E i, j \in 1..Len(trace) :
    /\ i < j
    /\ trace[i].arm = "number"
    /\ trace[i].index1 < Len(string)
    /\ trace[j].arm = "done"

\* ------------------------------------------------------------------ C15
\* a step of the lexer after which the error flag is set if it was set, is
\* as it was if no diagnostic was written, and is newly set only with one
ErrorKept ==
  /\ error => error'
  /\ stderr' = stderr => error' = error
  /\ (error' /\ ~error) => Len(stderr') > Len(stderr)

\* C15: the error flag is false at construction and is never cleared: once
\* a step has set it, it is set in every later state, whatever follows, and
\* a step that records no error leaves it as it is. So in every state the
\* flag is set exactly when an error has been recorded.
C15_ErrorIsCumulative ==
  /\ [](trace = <<>> => ~error)
  /\ [](error <=> ErrorSteps # {})
  /\ [][ErrorKept]_vars

\* the flag is still set after later calls have yielded two tokens
C15_Witness ==
  /\ error
  /\ \E i \in ErrorSteps : \E j, k \in YieldSteps : i < j /\ j < k

\* ------------------------------------------------------------------ C16
\* the iterations at which the line number is observed: a token is yielded
\* or a diagnostic is written
ObservedSteps == YieldSteps \cup ErrorSteps

\* C16: the tokens are yielded in strictly increasing order of the position
\* their lexeme starts at, and the line number seen at successive yields
\* and diagnostics, the line printed in a diagnostic included, never
\* decreases.
C16_SourceOrder ==
  /\ \A i, j \in YieldSteps : i < j => trace[i].at < trace[j].at
  /\ \A i, j \in ObservedSteps : i < j => trace[i].line1 <= trace[j].line1
  /\ \A k, l \in 1..Len(stderr) : k < l =>
       /\ stderr[k].line <= stderr[l].line
       /\ stderr[k].at < stderr[l].at
  /\ \A k \in 1..Len(stderr) : \A i \in ErrorSteps :
       trace[i].at = stderr[k].at => stderr[k].line = trace[i].line1

\* a token, then a diagnostic, then a token on a later line
C16_Witness ==
  \E i, k \in TokenSteps : \E j \in ErrorSteps :
    /\ i < j
    /\ j < k
    /\ trace[k].line1 > trace[i].line1

\* ------------------------------------------------------------------ C17
\* the arms that end with read_char having returned None
PastEndArms == {"eof", "unterminated", "comment", "done"}

\* C17: no access to the character buffer is out of range: no call of
\* next() panics; read_number and read_ident look at string[index - 1] and
\* slice string[start..index] with 0 <= start < index <= length, the string
\* arm slices string[start..index - 1] with 0 <= start <= index - 1 <=
\* length; the index is past the length only after read_char returned None,
\* by 1, or by 2 when EOF is read after an unterminated string or comment.
C17_InBounds ==
  /\ exitCode # 101
  /\ index >= 0
  /\ index <= Len(string) + 2
  /\ \A i \in 1..Len(trace) :
       /\ trace[i].ret # PanicToken
       /\ trace[i].at >= 0
       /\ trace[i].index1 <= Len(string) + 2
       /\ trace[i].arm \in {"number", "ident"} =>
            /\ trace[i].at < trace[i].index1
            /\ trace[i].index1 <= Len(string)
            /\ lexeme(trace[i].ret) =
                 SubSeq(string, trace[i].at + 1, trace[i].index1)
       /\ trace[i].arm = "string" =>
            /\ trace[i].at + 1 <= trace[i].index1 - 1
            /\ trace[i].index1 - 1 <= Len(string)
       /\ trace[i].index1 > Len(string) => trace[i].arm \in PastEndArms
       /\ (trace[i].index1 = Len(string) + 2 /\ trace[i].arm = "eof") =>
            /\ i > 1
            /\ trace[i - 1].arm \in {"unterminated", "comment"}
            /\ trace[i - 1].index1 = Len(string) + 1

\* a number has been sliced out, then an unterminated string and EOF have
\* left the index 2 past the length
C17_Witness ==
  /\ index = Len(string) + 2
  /\ \E i, j \in 1..Len(trace) :
       /\ i < j
       /\ trace[i].arm = "number"
       /\ trace[j].arm = "unterminated"

====
